---- MODULE Spec2Model ----
(***************************************************************************)
(* Model of the pdf_scrape integration: the PDFScrape document sources     *)
(* (pdf.py), the polling coordinator (coordinator.py) and the target       *)
(* subentry flow (config_flow.py).                                         *)
(*                                                                         *)
(* Texts are sequences of one-character tokens.  A page range string that  *)
(* matches REGEX_PAGE_RANGE_PATTERN is kept in its split form: a sequence  *)
(* of parts, a part being <<n>> for "n" and <<a, b>> for "a-b".            *)
(* Timestamps are naturals, 0 standing for None.                           *)
(***************************************************************************)
EXTENDS Integers, Sequences, FiniteSets, TLC

VARIABLES
    ctype,      \* config_entry.data[CONF_TYPE]
    subs,       \* config_entry.subentries, in insertion order
    now,        \* the wall clock read by datetime.datetime.now
    store,      \* the persisted Store of the entry: <<>> or <<record>>
    pdf,        \* coordinator.pdf, the PDFScrape object of the entry
    data,       \* coordinator.data
    issues,     \* the issue registry
    phase,      \* "flow": no entry yet, "new": entry not set up, "ready": set up
    file,       \* the local file: [doc, parse, mtime]
    cf,         \* the result of the last PDFScrapeConfigFlow step
    entry,      \* config_entry.data besides the type
    tempStore,  \* the Store keyed by the flow id of an upload flow
    last,       \* what the last operation did (history variable)
    gp,         \* one call of PDFScrape.get_pages: input and result
    flowData,   \* TargetSubentryFlowHandler.data (class attribute)
    flows,      \* the TargetSubentryFlowHandler instances
    reload,     \* the scheduled reload of the entry: <<>> or <<what asked for it>>
    mig         \* one call of async_migrate_entry: the entry, its store, the result

vars == <<ctype, subs, now, store, pdf, data, issues, phase, file, cf, entry,
          tempStore, last, gp, flowData, flows, reload, mig>>

pollVars == <<ctype, subs, now, store, pdf, data, issues, phase, file, cf, entry,
              tempStore, last, reload, mig>>
flowVars == <<flowData, flows>>

----------------------------------------------------------------------------
(* Bounds *)

NumDocs == 4        \* documents 1..NumDocs
MaxTime == 6        \* the clock stops the model at MaxTime
MaxPageNo == 3      \* page numbers written in a range string: 0..MaxPageNo
MaxParts == 2       \* parts of a page range string
MaxSubs == 2        \* targets of the entry
HashMod == 4        \* number of distinct checksums
NumFlows == 2       \* target subentry flows
NumValues == 2      \* values an entry-data key takes in a migration

----------------------------------------------------------------------------
(* Documents: what PdfReader makes of the bytes of document d *)

Docs == 1..NumDocs

\* pdfr.metadata: absent, present without /ModDate, present with /ModDate
DocMetaKind(d) ==
    CASE d % 3 = 1 -> "Dated"
      [] d % 3 = 2 -> "NoDate"
      [] OTHER     -> "NoInfo"

\* metadata.modification_date (0 is None)
DocModDate(d) == IF DocMetaKind(d) = "Dated" THEN 1 + (d \div 6) ELSE 0

\* [page.extract_text() for page in pdfr.pages]
DocPages(d) ==
    CASE d % 4 = 1 -> << <<"a", "b">>, <<"b">> >>
      [] d % 4 = 2 -> << <<"b", "a", "b">> >>
      [] d % 4 = 3 -> << <<"a">>, <<"c">>, <<"b", "a">> >>
      [] OTHER     -> << <<"c">> >>

\* hash_md5.hexdigest() of what stream.read returns after PdfReader(stream)
Md5(d) == 1 + (d % HashMod)

\* datetime.isoformat / datetime.fromisoformat
IsoFormat(t) == <<"iso", t>>
FromIsoFormat(s) == s[2]

\* What PdfReader(stream) and page.extract_text() do with the bytes obtained
ParseOutcomes == {"ok", "bad_open", "bad_page"}

----------------------------------------------------------------------------
(* PDFScrape.get_pages *)

SetMax(S) == CHOOSE x \in S : \A y \in S : y <= x
SetMin(S) == CHOOSE x \in S : \A y \in S : x <= y

RECURSIVE Sorted(_)
Sorted(S) == IF S = {} THEN <<>> ELSE <<SetMin(S)>> \o Sorted(S \ {SetMin(S)})

\* range(start, end + 1) for "start-end", {int(part)} otherwise
PartNums(part) == IF Len(part) = 2 THEN part[1]..part[2] ELSE {part[1]}

PageNums(page_range) ==
    UNION {PartNums(page_range[i]) : i \in 1..Len(page_range)}

\* "\n".join(texts)
RECURSIVE JoinNewline(_)
JoinNewline(texts) ==
    IF Len(texts) = 0 THEN <<>>
    ELSE IF Len(texts) = 1 THEN texts[1]
    ELSE texts[1] \o <<"NL">> \o JoinNewline(Tail(texts))

OutOfRange(page_nums, pages) ==
    SetMax(page_nums) > Len(pages) \/ SetMin(page_nums) < 1

get_pages(pages, page_range) ==
    LET page_nums == PageNums(page_range)
        order == Sorted(page_nums)
    IN  IF page_nums = {}
        THEN [exc |-> "ValueError", txt |-> <<>>]      \* max() of an empty set
        ELSE IF OutOfRange(page_nums, pages)
        THEN [exc |-> "ValueError", txt |-> <<>>]
        ELSE [exc |-> "",
              txt |-> JoinNewline([i \in 1..Len(order) |-> pages[order[i]]])]

\* The numbers written in the range string
WrittenNums(page_range) ==
    UNION {{page_range[i][j] : j \in 1..Len(page_range[i])} : i \in 1..Len(page_range)}

Parts == {<<n>> : n \in 0..MaxPageNo} \cup {<<a, b>> : a, b \in 0..MaxPageNo}

RECURSIVE SeqsUpTo(_, _)
SeqsUpTo(S, n) ==
    IF n = 0 THEN {<<>>}
    ELSE LET shorter == SeqsUpTo(S, n - 1)
         IN  shorter \cup {Append(s, x) : s \in shorter, x \in S}

PageRanges == SeqsUpTo(Parts, MaxParts) \ {<<>>}

GpIdle == [pages |-> <<>>, range |-> <<>>, exc |-> "", txt |-> <<>>, called |-> FALSE]

\* pdf.get_pages(page_range) on the pages and the range string of gp
CallGetPages ==
    /\ ~gp.called
    /\ gp' = [gp EXCEPT !.exc = get_pages(gp.pages, gp.range).exc,
                        !.txt = get_pages(gp.pages, gp.range).txt,
                        !.called = TRUE]
    /\ UNCHANGED <<pollVars, flowVars>>

----------------------------------------------------------------------------
(* PDFScrape (pdf.py).  An object is a record; the Store of its entry is   *)
(* passed in and handed back.                                              *)

\* PDFScrape.__init__ followed by the first lines of _pdf_scrape
NewPdf(has_store, has_path, st) ==
    [pages |-> <<>>, modified |-> 0, modified_source |-> "", md5_checksum |-> 0,
     stored_file |-> IF has_store THEN st ELSE <<>>,
     has_store |-> has_store, has_path |-> has_path]

NoPdf == NewPdf(FALSE, FALSE, <<>>)

StoredRecord(self) ==
    [modified |-> IsoFormat(self.modified), md5_checksum |-> self.md5_checksum,
     modified_source |-> self.modified_source, pages |-> self.pages]

\* The comparison that stops _process_pdf early
IsUnchangedIgnoringChecksum(stored_file, modified, md5_checksum) ==
    /\ stored_file # <<>>
    /\ modified = FromIsoFormat(stored_file[1].modified)

IsUnchanged(stored_file, modified, md5_checksum) ==
    /\ stored_file # <<>>
    /\ modified = FromIsoFormat(stored_file[1].modified)
    /\ md5_checksum = stored_file[1].md5_checksum

\* The result of a call on a PDFScrape object.  processed, modified and
\* md5_checksum tell whether _process_pdf ran and what it computed.
Outcome(exc, ret, self, st) ==
    [exc |-> exc, ret |-> ret, self |-> self, store |-> st,
     extracted |-> FALSE, saved |-> FALSE, processed |-> FALSE,
     modified |-> 0, md5_checksum |-> 0]

\* PDFScrape._process_pdf(stream, alt_timestamp); alt_timestamp is <<time, source>>
process_pdf(self, st, doc, parse, alt_timestamp) ==
    IF parse = "bad_open"
    THEN [Outcome("PDFParseError", FALSE, self, st) EXCEPT !.processed = TRUE]
    ELSE
    LET metadata == DocMetaKind(doc) # "NoInfo"
        m1 == IF metadata THEN DocModDate(doc) ELSE self.modified
        s1 == IF metadata THEN "pdf_metadata" ELSE self.modified_source
        modified == IF m1 = 0 THEN alt_timestamp[1] ELSE m1
        source == IF m1 = 0 THEN alt_timestamp[2] ELSE s1
        self2 == [self EXCEPT !.modified = modified, !.modified_source = source,
                              !.md5_checksum = Md5(doc)]
        self3 == [self2 EXCEPT !.pages = DocPages(doc)]
        self4 == [self3 EXCEPT !.stored_file = <<StoredRecord(self3)>>]
        res(exc, ret, me, s) ==
            [Outcome(exc, ret, me, s) EXCEPT !.processed = TRUE,
                 !.modified = modified, !.md5_checksum = Md5(doc)]
    IN  IF IsUnchanged(self.stored_file, modified, Md5(doc))
        THEN res("", FALSE, self2, st)
        ELSE IF parse = "bad_page"
        THEN res("PDFParseError", FALSE, self2, st)
        ELSE IF self.has_store
        THEN [res("", TRUE, self4, self4.stored_file) EXCEPT
                  !.extracted = TRUE, !.saved = TRUE]
        ELSE [res("", TRUE, self3, st) EXCEPT !.extracted = TRUE]

load_nothing_from_storage(self, st) == Outcome("", FALSE, self, st)

\* PDFScrape._load_from_storage
load_from_storage(self, st) ==
    IF self.has_store /\ st # <<>>
    THEN Outcome("", FALSE,
                 [self EXCEPT !.stored_file = st, !.pages = st[1].pages,
                              !.modified = FromIsoFormat(st[1].modified),
                              !.modified_source = st[1].modified_source,
                              !.md5_checksum = st[1].md5_checksum],
                 st)
    ELSE Outcome("StoredFileError", FALSE,
                 IF self.has_store THEN [self EXCEPT !.stored_file = <<>>] ELSE self,
                 st)

\* _process_pdf returned r: return True, or fall through to _load_from_storage
after_process(r) ==
    IF r.exc # "" \/ r.ret THEN r
    ELSE [load_from_storage(r.self, r.store) EXCEPT !.processed = TRUE,
              !.modified = r.modified, !.md5_checksum = r.md5_checksum]

\* What update() reads: [fail, doc, parse, late_modified, mtime]
Source(fail, doc, parse, late_modified, mtime) ==
    [fail |-> fail, doc |-> doc, parse |-> parse,
     late_modified |-> late_modified, mtime |-> mtime, last_modified |-> 0]

\* PDFScrapeHTTP.update; src is the response of the server
http_update(self, st, src, t) ==
    IF src.fail THEN Outcome("HTTPError", FALSE, self, st)
    ELSE IF src.late_modified
    THEN Outcome("AttributeError", FALSE, self, st)   \* datetime.strptime of the module
    ELSE after_process(process_pdf(self, st, src.doc, src.parse, <<t, "first_check">>))

file_update_reporting_change(self, st, src, t, upload) ==
    [load_from_storage(self, st) EXCEPT !.ret = TRUE]

\* PDFScrapeFile._update(upload); src is the file at self.path
file_update(self, st, src, t, upload) ==
    IF ~self.has_path THEN load_from_storage(self, st)
    ELSE IF src.fail THEN Outcome("FileError", FALSE, self, st)
    ELSE LET alt == IF upload THEN <<t, "upload">>
                    ELSE <<src.mtime, "file_modification_time">>
         IN  after_process(process_pdf(self, st, src.doc, src.parse, alt))

\* PDFScrapeHTTP.update, PDFScrapeLocal.update, PDFScrapeUpload.update
update(type, self, st, src, t) ==
    CASE type = "http"   -> http_update(self, st, src, t)
      [] type = "local"  -> file_update(self, st, src, t, FALSE)
      [] OTHER           -> file_update(self, st, src, t, TRUE)

----------------------------------------------------------------------------
(* PDFScrapeCoordinator (coordinator.py) *)

\* A value of coordinator.data: a str, a list[str] of matches, or a rendered str
Value(kind, v, tpl, of) == [kind |-> kind, v |-> v, tpl |-> tpl, of |-> of]
StrValue(txt) == Value("str", txt, "", "")
ListValue(matches) == Value("list", matches, "", "")
NoValue == Value("absent", <<>>, "", "")

Chars(txt) == {txt[i] : i \in 1..Len(txt)}

\* Patterns are one literal character; "(" does not compile
PatternError(pattern) == pattern = "("

\* re.findall(pattern, txt)
findall(pattern, txt) == SelectSeq(txt, LAMBDA ch : ch = pattern)

\* Template(...).async_render raising TemplateError: "TFloat" needs an "a" in value
TemplateError(tpl, value) == tpl = "TFloat" /\ "a" \notin Chars(value.v)

\* Template(tpl).async_render(variables={"value": value}, parse_result=False)
async_render(tpl, value) == Value("rendered", value.v, tpl, value.kind)

\* The result of one step of a target: an exception (with the issue
\* async_raise_error created before raising it) or a value
Raised(exc, error_key) == [exc |-> exc, error_key |-> error_key, value |-> NoValue]
Passed(value) == [exc |-> "", error_key |-> "", value |-> value]

\* except IndexError (coordinator.py line 76)
CaughtAsIndexError(exc) == exc = "IndexError"

\* txt = self.pdf.get_pages(subentry_conf.data[CONF_PDF_PAGES])
pages_step(pages, conf) ==
    LET res == get_pages(pages, conf.pdf_pages)
    IN  IF res.exc = "" THEN Passed(StrValue(res.txt))
        ELSE IF CaughtAsIndexError(res.exc)
        THEN Raised("ConfigEntryError", "index_error")
        ELSE Raised(res.exc, "")

\* matches[int(index)] or the whole list for "-1"
select_match(matches, index) ==
    IF index # -1
    THEN IF index + 1 \in 1..Len(matches)
         THEN Passed(StrValue(<<matches[index + 1]>>))
         ELSE Raised("IndexError", "")
    ELSE Passed(ListValue(matches))

NoMatchesNeverRaised(matches) == FALSE

\* if not matches: async_raise_error(error_key="no_matches")
NoMatches(matches) == matches = <<>>

\* the block under "if subentry_conf.data.get(CONF_REGEX_SEARCH)"
regex_step(value, conf) ==
    IF conf.regex_search = "" THEN Passed(value)
    ELSE IF PatternError(conf.regex_search)
    THEN Raised("ConfigEntryError", "pattern_error")
    ELSE LET matches == findall(conf.regex_search, value.v)
         IN  IF NoMatches(matches) THEN Raised("ConfigEntryError", "no_matches")
             ELSE select_match(matches, conf.regex_match_index)

template_step_swallowing_errors(value, conf) ==
    IF conf.value_template = "" \/ TemplateError(conf.value_template, value)
    THEN Passed(value)
    ELSE Passed(async_render(conf.value_template, value))

\* the block under "if subentry_conf.data.get(CONF_VALUE_TEMPLATE)"
template_step(value, conf) ==
    IF conf.value_template = "" THEN Passed(value)
    ELSE IF TemplateError(conf.value_template, value)
    THEN Raised("ConfigEntryError", "template_error")
    ELSE Passed(async_render(conf.value_template, value))

target_value_template_first(pages, conf) ==
    LET p == pages_step(pages, conf)
        r == IF p.exc = "" THEN template_step(p.value, conf) ELSE p
    IN  IF r.exc = "" THEN regex_step(r.value, conf) ELSE r

\* The body of the loop over the subentries, up to the store into self.data
target_value(pages, conf) ==
    LET p == pages_step(pages, conf)
        r == IF p.exc = "" THEN regex_step(p.value, conf) ELSE p
    IN  IF r.exc = "" THEN template_step(r.value, conf) ELSE r

\* for subentry_conf_key in self.config_entry.subentries: ...
\* The result names the subentry that raised and the targets written before it.
RECURSIVE eval_targets(_, _, _, _)
eval_targets(i, d, pages, ss) ==
    IF i > Len(ss)
    THEN [data |-> d, exc |-> "", error_key |-> "", subentry_id |-> 0,
          evaluated |-> [k \in 1..Len(ss) |-> k]]
    ELSE LET r == target_value(pages, ss[i])
         IN  IF r.exc # ""
             THEN [data |-> d, exc |-> r.exc, error_key |-> r.error_key,
                   subentry_id |-> i, evaluated |-> [k \in 1..(i - 1) |-> k]]
             ELSE eval_targets(i + 1, [d EXCEPT ![i] = r.value], pages, ss)

\* "not self.data"
DataEmpty(d) == \A k \in DOMAIN d : d[k] = NoValue

CaughtHTTPErrorOnly(exc) == exc = "HTTPError"

\* except (HTTPError, PDFParseError) (coordinator.py line 137)
CaughtAsPdfError(exc) == exc \in {"HTTPError", "PDFParseError"}

\* if not self.data or await self.pdf.update()
UpdateCalled(d) == ~DataEmpty(d)

\* The issue async_raise_error creates: subentry_id 0 when config_subentry is None
Issue(error_key, subentry_id) == [error_key |-> error_key, subentry_id |-> subentry_id]

\* What _async_update_data leaves when no target is evaluated
RefreshResult(called, d, u) ==
    [called |-> called, update |-> u, data |-> d, exc |-> "",
     issue |-> <<>>, subentry_id |-> 0, evaluated |-> <<>>]

\* ... and when the loop over the subentries ended as e
with_targets(base, e) ==
    [base EXCEPT !.data = e.data, !.exc = e.exc,
                 !.issue = IF e.error_key = "" THEN <<>>
                           ELSE <<Issue(e.error_key, e.subentry_id)>>,
                 !.subentry_id = e.subentry_id,
                 !.evaluated = e.evaluated]

TargetsAlwaysEvaluated(called, ret) == TRUE

\* "if not self.data or await self.pdf.update()" once update() has returned ret
TargetsEvaluated(called, ret) == ~called \/ ret

\* _async_update_data from the outcome u of "not self.data or await self.pdf.update()"
after_update(called, d, ss, u) ==
    IF u.exc # ""
    THEN IF CaughtAsPdfError(u.exc)
         THEN [RefreshResult(called, d, u) EXCEPT
                   !.exc = "ConfigEntryError", !.issue = <<Issue("pdf_error", 0)>>]
         ELSE [RefreshResult(called, d, u) EXCEPT !.exc = u.exc]
    ELSE IF TargetsEvaluated(called, u.ret)
    THEN with_targets(RefreshResult(called, d, u),
                      eval_targets(1, d, u.self.pages, ss))
    ELSE RefreshResult(called, d, u)

\* PDFScrapeCoordinator._async_update_data
async_update_data(type, d, self, st, ss, src, t) ==
    IF UpdateCalled(d)
    THEN after_update(TRUE, d, ss, update(type, self, st, src, t))
    ELSE after_update(FALSE, d, ss, Outcome("", FALSE, self, st))

----------------------------------------------------------------------------
(* PDFScrapeConfigFlow (config_flow.py): the steps that create the entry *)

CONF_MIN_SCAN_INTERVAL == 30
CONF_DEFAULT_SCAN_INTERVAL == 300

ScanSeconds == {0, CONF_MIN_SCAN_INTERVAL - 1, CONF_MIN_SCAN_INTERVAL,
                CONF_DEFAULT_SCAN_INTERVAL}

NoEntry == [scan_interval |-> 0, temp_storage_id |-> FALSE]

FlowResult(type, errors, exc) == [type |-> type, errors |-> errors, exc |-> exc]

\* What a step hands back: its result, the entry data it creates, the object it used
StepOutcome(result, new_entry, u) == [result |-> result, entry |-> new_entry, u |-> u]

NeverTooShort(td) == FALSE

\* if td < CONF_MIN_SCAN_INTERVAL
TooShort(td) == td < CONF_MIN_SCAN_INTERVAL

\* What async_step_http does with the fetched document, by self.source
http_step_result(source) ==
    CASE source = "user"        -> FlowResult("create_entry", {}, "")
      [] source = "reconfigure" -> FlowResult("abort", {}, "")
      [] OTHER                  -> FlowResult("form", {<<"base", "invalid_source">>}, "")

\* PDFScrapeConfigFlow.async_step_http with user_input [present, seconds, valid_url]
async_step_http(source, user_input, src, t) ==
    LET td == IF user_input.present THEN user_input.seconds
              ELSE CONF_DEFAULT_SCAN_INTERVAL
        idle == Outcome("", FALSE, NoPdf, <<>>)
        u == http_update(NewPdf(FALSE, FALSE, <<>>), <<>>, src, t)
    IN  IF TooShort(td)
        THEN StepOutcome(FlowResult("form", {<<"base", "min_interval">>}, ""), NoEntry, idle)
        ELSE IF ~user_input.valid_url
        THEN StepOutcome(FlowResult("form", {<<"url", "invalid_url">>}, ""), NoEntry, idle)
        ELSE IF u.exc = "PDFParseError"
        THEN StepOutcome(FlowResult("form", {<<"url", "pdf_parse">>}, ""), NoEntry, u)
        ELSE IF u.exc # ""
        THEN StepOutcome(FlowResult("raised", {}, u.exc), NoEntry, u)
        ELSE StepOutcome(http_step_result(source),
                         [scan_interval |-> td, temp_storage_id |-> FALSE], u)

\* PDFScrapeConfigFlow.async_step_local: PDFScrapeUpload.pdfscrape(hass, path=...)
async_step_local(valid_path, src, t) ==
    LET idle == Outcome("", FALSE, NoPdf, <<>>)
        u == file_update(NewPdf(FALSE, TRUE, <<>>), <<>>, src, t, TRUE)
    IN  IF ~valid_path
        THEN StepOutcome(FlowResult("form", {<<"file", "file_error">>}, ""), NoEntry, idle)
        ELSE IF u.exc = "PDFParseError"
        THEN StepOutcome(FlowResult("form", {<<"file", "pdf_parse">>}, ""), NoEntry, u)
        ELSE IF u.exc = "FileError"
        THEN StepOutcome(FlowResult("form", {<<"file", "file_error">>}, ""), NoEntry, u)
        ELSE IF u.exc # ""
        THEN StepOutcome(FlowResult("raised", {}, u.exc), NoEntry, u)
        ELSE StepOutcome(FlowResult("create_entry", {}, ""), NoEntry, u)

\* PDFScrapeConfigFlow.async_step_upload:
\* PDFScrapeUpload.pdfscrape(hass, path=pdf_path, config_entry_id=self.flow_id)
async_step_upload(temp, src, t) ==
    LET u == file_update(NewPdf(TRUE, TRUE, temp), temp, src, t, TRUE)
    IN  IF u.exc = "PDFParseError"
        THEN StepOutcome(FlowResult("form", {<<"file", "pdf_parse">>}, ""), NoEntry, u)
        ELSE IF u.exc # ""
        THEN StepOutcome(FlowResult("raised", {}, u.exc), NoEntry, u)
        ELSE StepOutcome(FlowResult("create_entry", {}, ""),
                         [scan_interval |-> 0, temp_storage_id |-> TRUE], u)

----------------------------------------------------------------------------
(* async_migrate_entry (__init__.py).  The data of an entry and of a        *)
(* subentry, and a stored record, are functions from keys to values.        *)

\* The keys of config_entry.data of an entry made by version 1.1 or later
EntryKeys ==
    {"url", "scan_interval", "type", "modified", "modified_source", "md5_checksum"}

\* [CONF_MODIFIED, CONF_MODIFIED_SOURCE, CONF_MD5_CHECKSUM]
MovedKeys == {"modified", "modified_source", "md5_checksum"}

\* The value n of key k
KeyValue(k, n) == <<k, n>>

\* {"page_page": n}, the subentry data of version 1.1, and {"pdf_pages": n}
OldSubentry(n) == [k \in {"page_page"} |-> KeyValue("pdf_pages", n)]
NewSubentry(n) == [k \in {"pdf_pages"} |-> KeyValue("pdf_pages", n)]

\* The entry handed to async_migrate_entry and the store keyed by its id
MigEntry(version, minor_version, d, ss, st) ==
    [version |-> version, minor_version |-> minor_version, data |-> d,
     subentries |-> ss, store |-> st, called |-> FALSE, before |-> <<>>]

MigIdle == MigEntry(1, 2, <<>>, <<>>, <<>>)

\* new_data.pop("page_page"); new_data[CONF_PDF_PAGES] = pdf_page
migrate_subentry(sd) ==
    IF "page_page" \in DOMAIN sd
    THEN [k \in (DOMAIN sd \ {"page_page"}) \cup {"pdf_pages"} |->
             IF k = "pdf_pages" THEN sd["page_page"] ELSE sd[k]]
    ELSE sd

migrate_keeping_keys(m) ==
    [m EXCEPT
        !.store = <<[k \in DOMAIN m.data \cap MovedKeys |-> m.data[k]]>>,
        !.data = [k \in DOMAIN m.data \cup {"type"} |->
                     IF k = "type" THEN "http" ELSE m.data[k]],
        !.minor_version = 2]

\* The body under "version == 1 and minor_version == 1"
migrate_1_1(m) ==
    [m EXCEPT
        !.store = <<[k \in DOMAIN m.data \cap MovedKeys |-> m.data[k]]>>,
        !.data = [k \in (DOMAIN m.data \ MovedKeys) \cup {"type"} |->
                     IF k = "type" THEN "http" ELSE m.data[k]],
        !.version = 1, !.minor_version = 2,
        !.subentries = [i \in DOMAIN m.subentries |-> migrate_subentry(m.subentries[i])]]

\* async_migrate_entry
async_migrate_entry(m) ==
    IF m.version = 1 /\ m.minor_version = 1 THEN migrate_1_1(m) ELSE m

----------------------------------------------------------------------------
(* The entry: its targets, the documents its source serves, its life cycle *)

Conf(pdf_pages, regex_search, regex_match_index, value_template) ==
    [pdf_pages |-> pdf_pages, regex_search |-> regex_search,
     regex_match_index |-> regex_match_index, value_template |-> value_template]

\* Subentry data the target flow can save (no index without a regex, and
\* "all matches", -1, only with a template), in the order the targets were added
ConfOrder ==
    << Conf(<< <<1>> >>, "", -1, ""),
       Conf(<< <<1, 2>> >>, "a", 0, ""),
       Conf(<< <<1>>, <<1>> >>, "b", -1, "T"),
       Conf(<< <<1>> >>, "b", 1, "T"),
       Conf(<< <<1>> >>, "", -1, "TFloat") >>

SubentryLists ==
    {[i \in 1..n |-> ConfOrder[1 + ((first + i - 2) % Len(ConfOrder))]] :
        first \in 1..Len(ConfOrder), n \in 0..MaxSubs}

Responses ==
    {Source(TRUE, 1, "ok", FALSE, 0), Source(FALSE, 1, "ok", TRUE, 0)}
    \cup {Source(FALSE, d, p, FALSE, 0) : d \in Docs, p \in ParseOutcomes}

Uploads ==
    {Source(TRUE, 1, "ok", FALSE, 0)}
    \cup {Source(FALSE, d, p, FALSE, 0) : d \in Docs, p \in ParseOutcomes}

\* What update() of an object of the entry can read
Sources(type, f) ==
    CASE type = "http"  -> Responses
      [] type = "local" -> {Source(fail, f.doc, f.parse, FALSE, f.mtime) : fail \in BOOLEAN}
      [] OTHER          -> {Source(FALSE, 1, "ok", FALSE, 0)}

EmptyData(ss) == [k \in 1..Len(ss) |-> NoValue]

LastIdle ==
    [op |-> "none", called |-> FALSE, doc |-> 0, processed |-> FALSE,
     stored_before |-> <<>>, has_store |-> FALSE, modified |-> 0, md5_checksum |-> 0,
     u_exc |-> "", ret |-> FALSE, extracted |-> FALSE, saved |-> FALSE,
     store_before |-> <<>>, store_after |-> <<>>, pages_after |-> <<>>,
     exc |-> "", issue |-> <<>>, subentry_id |-> 0, evaluated |-> <<>>,
     data_before |-> <<>>, stored_doc_before |-> 0, stored_doc |-> 0,
     pdf_after |-> NoPdf, scheduled |-> FALSE, interval |-> -1,
     temp_before |-> <<>>, entry_before |-> NoEntry, reload_of |-> <<>>,
     last_modified |-> 0, pdf_before |-> NoPdf]

\* The history of one call of update() on object self reading src, with outcome u
LastUpdate(op, self, st, src, u) ==
    [LastIdle EXCEPT
        !.op = op, !.doc = IF u.processed THEN src.doc ELSE 0,
        !.processed = u.processed, !.stored_before = self.stored_file,
        !.has_store = self.has_store, !.modified = u.modified,
        !.md5_checksum = u.md5_checksum, !.u_exc = u.exc, !.ret = u.ret,
        !.extracted = u.extracted, !.saved = u.saved,
        !.store_before = st, !.store_after = u.store, !.pages_after = u.self.pages,
        !.pdf_after = u.self, !.temp_before = tempStore, !.entry_before = entry,
        !.last_modified = src.last_modified, !.pdf_before = self,
        !.exc = u.exc,
        !.stored_doc_before = last.stored_doc,
        !.stored_doc = IF u.saved THEN src.doc ELSE last.stored_doc]

Init ==
    /\ ctype \in {"http", "local", "upload"}
    /\ subs \in SubentryLists
    /\ now = 2
    /\ store = <<>>
    /\ tempStore = <<>>
    /\ pdf = NoPdf
    /\ data = EmptyData(subs)
    /\ issues = {}
    /\ phase = "flow"
    /\ file \in {[doc |-> d, parse |-> "ok", mtime |-> 1] :
                    d \in IF ctype = "local" THEN Docs ELSE {1}}
    /\ cf = FlowResult("none", {}, "")
    /\ entry = NoEntry
    /\ last = LastIdle
    /\ gp = GpIdle
    /\ flowData = <<>>
    /\ flows = <<>>
    /\ reload = <<>>
    /\ mig = MigIdle

\* One entry, no targets: the state the other specifications leave untouched
InitIdle ==
    /\ ctype = "http"
    /\ subs = <<>>
    /\ now = 2
    /\ store = <<>>
    /\ tempStore = <<>>
    /\ pdf = NoPdf
    /\ data = EmptyData(subs)
    /\ issues = {}
    /\ phase = "flow"
    /\ file = [doc |-> 1, parse |-> "ok", mtime |-> 1]
    /\ cf = FlowResult("none", {}, "")
    /\ entry = NoEntry
    /\ last = LastIdle
    /\ reload = <<>>

\* A step of the config flow that creates the entry
ConfigFlowStep(r) ==
    /\ cf' = r.result
    /\ entry' = IF r.result.type = "create_entry" THEN r.entry ELSE entry
    /\ phase' = IF r.result.type = "create_entry" THEN "new" ELSE phase
    /\ now' = IF r.result.type = "create_entry" THEN now + 1 ELSE now
    /\ UNCHANGED <<ctype, subs, store, pdf, data, issues, file, gp, flowData, flows,
                   reload, mig>>

StepHttp ==
    /\ phase = "flow" /\ ctype = "http" /\ now < MaxTime
    /\ \E present, valid_url \in BOOLEAN, seconds \in ScanSeconds, src \in Responses :
          \E r \in {async_step_http("user", [present |-> present, seconds |-> seconds,
                                            valid_url |-> valid_url], src, now)} :
              /\ ConfigFlowStep(r)
              /\ last' = [LastUpdate("step_http", NewPdf(FALSE, FALSE, <<>>), <<>>,
                                     src, r.u)
                             EXCEPT !.interval = IF present THEN seconds ELSE -1]
              /\ UNCHANGED tempStore

StepLocal ==
    /\ phase = "flow" /\ ctype = "local" /\ now < MaxTime
    /\ \E valid_path \in BOOLEAN, src \in Sources("local", file) :
          \E r \in {async_step_local(valid_path, src, now)} :
              /\ ConfigFlowStep(r)
              /\ last' = LastUpdate("step_local", NewPdf(FALSE, TRUE, <<>>), <<>>, src, r.u)
              /\ UNCHANGED tempStore

StepUpload ==
    /\ phase = "flow" /\ ctype = "upload" /\ now < MaxTime
    /\ \E src \in Uploads :
          \E r \in {async_step_upload(tempStore, src, now)} :
              /\ ConfigFlowStep(r)
              /\ last' = LastUpdate("step_upload", NewPdf(TRUE, TRUE, tempStore),
                                    tempStore, src, r.u)
              /\ tempStore' = r.u.store

\* The file of a local entry is written: new bytes, new modification time
WriteFile ==
    /\ ctype = "local" /\ phase # "flow" /\ now < MaxTime
    /\ \E d \in Docs, p \in ParseOutcomes :
          file' = [doc |-> d, parse |-> p, mtime |-> now]
    /\ now' = now + 1
    /\ UNCHANGED <<ctype, subs, store, pdf, data, issues, phase, cf, entry, tempStore,
                   last, gp, flowData, flows, reload, mig>>

----------------------------------------------------------------------------
(* async_setup_entry (__init__.py) and the polls of the coordinator *)

\* except (HTTPError, TimeoutError, PDFParseError) (__init__.py line 206)
CaughtBySetup(exc) == exc \in {"HTTPError", "TimeoutError", "PDFParseError"}

\* What async_setup_entry leaves behind; c is what it began with, u the
\* outcome of update(), r that of the first refresh
SetupResult(exc, issue, c, ss, u, r) ==
    [exc |-> exc, issue |-> issue, ready |-> exc = "",
     pdf |-> IF exc = "" THEN u.self ELSE NoPdf,
     store |-> u.store, tempStore |-> c.tempStore, entry |-> c.entry,
     data |-> IF exc = "" THEN r.data ELSE EmptyData(ss),
     self0 |-> c.self0, store0 |-> c.store0, u |-> u, r |-> r]

\* coordinator.async_config_entry_first_refresh() ended as r
after_first_refresh(c, ss, u, r) == SetupResult(r.exc, r.issue, c, ss, u, r)

\* async_setup_entry from the outcome u of "await pdf.update()"
first_refresh(type, c, ss, src, t, u) ==
    IF u.exc # ""
    THEN SetupResult(IF CaughtBySetup(u.exc) THEN "ConfigEntryError" ELSE u.exc,
                     IF CaughtBySetup(u.exc) THEN <<Issue("pdf_error", 0)>> ELSE <<>>,
                     c, ss, u, RefreshResult(FALSE, EmptyData(ss), u))
    ELSE after_first_refresh(c, ss, u,
             async_update_data(type, EmptyData(ss), u.self, u.store, ss, src, t))

async_setup_entry_without_rename(type, e, st, temp, ss, src, t) ==
    first_refresh(type,
                  [self0 |-> NewPdf(TRUE, type = "local", st), store0 |-> st,
                   tempStore |-> temp, entry |-> e],
                  ss, src, t,
                  update(type, NewPdf(TRUE, type = "local", st), st, src, t))

\* async_setup_entry
async_setup_entry(type, e, st, temp, ss, src, t) ==
    LET rename == type = "upload" /\ e.temp_storage_id
        st1 == IF rename /\ temp # <<>> THEN temp ELSE st
        c == [self0 |-> NewPdf(TRUE, type = "local", st1), store0 |-> st1,
              tempStore |-> IF rename THEN <<>> ELSE temp,
              entry |-> IF rename /\ temp # <<>> THEN NoEntry ELSE e]
    IN  IF rename /\ temp = <<>>
        THEN SetupResult("ConfigEntryError", <<>>, c, ss,
                         Outcome("", FALSE, NoPdf, st),
                         RefreshResult(FALSE, EmptyData(ss), Outcome("", FALSE, NoPdf, st)))
        ELSE first_refresh(type, c, ss, src, t, update(type, c.self0, st1, src, t))

IssueSet(issue) == {issue[i] : i \in 1..Len(issue)}

SetupEntry ==
    /\ phase = "new" /\ now < MaxTime
    /\ \E src \in Sources(ctype, file) :
          \E s \in {async_setup_entry(ctype, entry, store, tempStore, subs, src, now)} :
              /\ phase' = IF s.ready THEN "ready" ELSE phase
              /\ pdf' = s.pdf
              /\ store' = s.store
              /\ tempStore' = s.tempStore
              /\ entry' = s.entry
              /\ data' = s.data
              /\ issues' = issues \cup IssueSet(s.issue)
              /\ last' = [LastUpdate("setup", s.self0, s.store0, src, s.u) EXCEPT
                             !.exc = s.exc, !.issue = s.issue,
                             !.subentry_id = IF s.u.exc = "" THEN s.r.subentry_id ELSE 0,
                             !.evaluated = IF s.u.exc = "" THEN s.r.evaluated ELSE <<>>,
                             !.data_before = EmptyData(subs)]
    /\ now' = now + 1
    /\ UNCHANGED <<ctype, subs, file, cf, gp, flowData, flows, reload, mig>>

\* A poll: the coordinator calls _async_update_data
Poll ==
    /\ phase = "ready" /\ now < MaxTime
    /\ \E src \in Sources(ctype, file) :
          \E r \in {async_update_data(ctype, data, pdf, store, subs, src, now)} :
              /\ data' = r.data
              /\ pdf' = r.update.self
              /\ store' = r.update.store
              /\ issues' = issues \cup IssueSet(r.issue)
              /\ last' = [LastUpdate("poll", pdf, store, src, r.update) EXCEPT
                             !.called = r.called, !.exc = r.exc, !.issue = r.issue,
                             !.subentry_id = r.subentry_id,
                             !.evaluated = r.evaluated, !.data_before = data]
    /\ now' = now + 1
    /\ UNCHANGED <<ctype, subs, phase, file, cf, entry, tempStore, gp, flowData, flows,
                   reload, mig>>

Next == StepHttp \/ StepLocal \/ StepUpload \/ SetupEntry \/ WriteFile \/ Poll

Spec == Init /\ [][Next]_vars

----------------------------------------------------------------------------
(* The upload_pdf service, reloads, reconfiguration and removal of the entry *)

\* What upload_pdf hands back: the exception it ends with, whether it called
\* async_schedule_reload, and the outcome u of PDFScrapeUpload.pdfscrape
ServiceResult(exc, scheduled, u) == [exc |-> exc, scheduled |-> scheduled, u |-> u]

\* _LOGGER.exception() in the handler of PDFParseError: Logger.exception has a
\* required argument msg
LoggerExceptionCall == "TypeError"

\* upload_pdf once PDFScrapeUpload.pdfscrape(path=pdf_path, config_entry_id=...) ended as u
after_pdfscrape(u) ==
    IF u.exc = "PDFParseError" THEN ServiceResult(LoggerExceptionCall, FALSE, u)
    ELSE IF u.exc # "" THEN ServiceResult(u.exc, FALSE, u)
    ELSE IF u.self.modified # 0 THEN ServiceResult("", TRUE, u)
    ELSE ServiceResult("ServiceValidationError", TRUE, u)

\* upload_pdf(call); valid: the call names a config entry that exists
upload_pdf(valid, st, src, t) ==
    IF valid
    THEN after_pdfscrape(file_update(NewPdf(TRUE, TRUE, st), st, src, t, TRUE))
    ELSE ServiceResult("ServiceValidationError", FALSE, Outcome("", FALSE, NoPdf, st))

\* The entry is in hass.config_entries
EntryExists == phase \in {"new", "ready"}

\* What a scheduled reload remembers of the call that asked for it: the file
\* read (0: none), what the call made of it, and whether the data of the entry
\* still had temp_storage_id
Uploaded(doc, u) ==
    [doc |-> doc, modified |-> u.self.modified, md5_checksum |-> u.self.md5_checksum,
     saved |-> u.saved, temp_storage_id |-> entry.temp_storage_id]

\* A call of the upload_pdf service
UploadPdf ==
    /\ phase # "flow" /\ now < MaxTime
    /\ \E valid \in {EntryExists, FALSE}, src \in Uploads :
          \E r \in {upload_pdf(valid, store, src, now)} :
              /\ store' = r.u.store
              /\ reload' = IF r.scheduled THEN <<Uploaded(src.doc, r.u)>> ELSE reload
              /\ last' = [LastUpdate("upload_pdf", NewPdf(TRUE, TRUE, store), store,
                                     src, r.u)
                             EXCEPT !.called = valid, !.exc = r.exc,
                                    !.scheduled = r.scheduled]
    /\ now' = now + 1
    /\ UNCHANGED <<ctype, subs, pdf, data, issues, phase, file, cf, entry, tempStore,
                   gp, flowData, flows, mig>>

\* The scheduled reload runs: the entry is unloaded and set up again
ReloadEntry ==
    /\ reload # <<>> /\ EntryExists /\ now < MaxTime
    /\ \E src \in Sources(ctype, file) :
          \E s \in {async_setup_entry(ctype, entry, store, tempStore, subs, src, now)} :
              /\ phase' = IF s.ready THEN "ready" ELSE "new"
              /\ pdf' = s.pdf
              /\ store' = s.store
              /\ tempStore' = s.tempStore
              /\ entry' = s.entry
              /\ data' = s.data
              /\ issues' = issues \cup IssueSet(s.issue)
              /\ last' = [LastUpdate("reload", s.self0, s.store0, src, s.u) EXCEPT
                             !.exc = s.exc, !.issue = s.issue,
                             !.subentry_id = s.r.subentry_id,
                             !.evaluated = s.r.evaluated,
                             !.data_before = EmptyData(subs),
                             !.reload_of = reload]
    /\ reload' = <<>>
    /\ now' = now + 1
    /\ UNCHANGED <<ctype, subs, file, cf, gp, flowData, flows, mig>>

\* The reconfigure flow of an HTTP entry submits its form
ReconfigureHttp ==
    /\ ctype = "http" /\ EntryExists /\ now < MaxTime
    /\ \E present, valid_url \in BOOLEAN, seconds \in ScanSeconds, src \in Responses :
          \E r \in {async_step_http("reconfigure",
                                     [present |-> present, seconds |-> seconds,
                                      valid_url |-> valid_url], src, now)} :
              /\ cf' = r.result
              /\ entry' = IF r.result.type = "abort" THEN r.entry ELSE entry
              /\ reload' = IF r.result.type = "abort" THEN <<Uploaded(0, r.u)>> ELSE reload
              /\ now' = IF r.result.type = "abort" THEN now + 1 ELSE now
              /\ last' = [LastUpdate("reconfigure", NewPdf(FALSE, FALSE, <<>>), <<>>,
                                     src, r.u)
                             EXCEPT !.interval = IF present THEN seconds ELSE -1]
    /\ UNCHANGED <<ctype, subs, store, pdf, data, issues, phase, file, tempStore,
                   gp, flowData, flows, mig>>

remove_nothing(st) == st

\* async_remove_entry: store.async_remove() on the store keyed by the entry id
async_remove_entry(st) == <<>>

\* The user deletes the entry: it is unloaded, then async_remove_entry runs
RemoveEntry ==
    /\ EntryExists
    /\ store' = async_remove_entry(store)
    /\ phase' = "removed"
    /\ pdf' = NoPdf
    /\ data' = EmptyData(subs)
    /\ last' = [LastIdle EXCEPT !.op = "remove", !.store_before = store,
                                !.store_after = async_remove_entry(store),
                                !.stored_doc = last.stored_doc]
    /\ UNCHANGED <<ctype, subs, now, issues, file, cf, entry, tempStore, reload,
                   gp, flowData, flows, mig>>

\* The file of the temporary store is gone before the entry is set up
LoseTempStore ==
    /\ phase = "new" /\ entry.temp_storage_id /\ tempStore # <<>>
    /\ tempStore' = <<>>
    /\ last' = [LastIdle EXCEPT !.op = "lose_temp", !.stored_doc = last.stored_doc]
    /\ UNCHANGED <<ctype, subs, now, store, pdf, data, issues, phase, file, cf, entry,
                   reload, gp, flowData, flows, mig>>

\* The life of an upload entry
InitUpload == Init /\ ctype = "upload"

NextUpload ==
    \/ StepUpload \/ SetupEntry \/ Poll
    \/ UploadPdf \/ ReloadEntry \/ RemoveEntry \/ LoseTempStore

SpecUpload == InitUpload /\ [][NextUpload]_vars

\* The config flow and the reconfigure flow of an HTTP entry
InitHttp == Init /\ ctype = "http" /\ subs = <<>>

NextHttp == StepHttp \/ SetupEntry \/ ReconfigureHttp \/ ReloadEntry

SpecHttp == InitHttp /\ [][NextHttp]_vars

----------------------------------------------------------------------------
(* Calls of get_pages on their own *)

InitPages ==
    /\ InitIdle
    /\ gp \in {[GpIdle EXCEPT !.pages = DocPages(d), !.range = r] :
                  d \in Docs, r \in PageRanges}
    /\ flowData = <<>>
    /\ flows = <<>>
    /\ mig = MigIdle

NextPages == CallGetPages

SpecPages == InitPages /\ [][NextPages]_vars

----------------------------------------------------------------------------
(* Properties of _process_pdf and update *)

\* The persisted record the object holds has the timestamp and checksum computed
SameAsStored ==
    /\ last.stored_before # <<>>
    /\ last.modified = FromIsoFormat(last.stored_before[1].modified)
    /\ last.md5_checksum = last.stored_before[1].md5_checksum

\* _process_pdf ran and did not raise
Processed == last.processed /\ last.u_exc # "PDFParseError"

SkippedUnchanged == ~last.extracted /\ ~last.saved /\ ~last.ret
                    /\ last.store_after = last.store_before

SavedRecord ==
    /\ last.store_after # <<>>
    /\ last.store_after[1].modified = IsoFormat(last.modified)
    /\ last.store_after[1].md5_checksum = last.md5_checksum
    /\ last.store_after[1].pages = DocPages(last.doc)
    /\ last.store_after[1].modified_source
          \in {"pdf_metadata", "first_check", "file_modification_time", "upload"}

\* C1 as claimed: _process_pdf skips extraction, leaves the record and returns
\* False when timestamp and checksum equal the persisted ones, and in every other
\* non-failing case extracts, saves the record and returns True.
C1_AsClaimed ==
    Processed =>
        IF SameAsStored THEN SkippedUnchanged
        ELSE last.extracted /\ last.ret /\ last.saved /\ SavedRecord

\* C1 amended: as claimed, but the record is saved only by an object that has a
\* store (one built with a config_entry_id); an object without store extracts and
\* returns True and saves nothing.
C1_SkipOrExtract ==
    Processed =>
        IF SameAsStored THEN SkippedUnchanged
        ELSE /\ last.extracted /\ last.ret
             /\ last.pages_after = DocPages(last.doc)
             /\ IF last.has_store THEN last.saved /\ SavedRecord
                ELSE ~last.saved /\ last.store_after = last.store_before

C1_Witness ==
    /\ last.op = "poll" /\ Processed /\ SameAsStored /\ ~last.ret

\* C2 as claimed: a poll that obtains the very bytes whose parsed state is
\* persisted does not extract the pages again and update() returns False,
\* whatever the metadata of the document.
C2_AsClaimed ==
    (/\ last.op = "poll" /\ last.called /\ last.processed /\ last.u_exc = ""
     /\ last.doc = last.stored_doc_before)
        => ~last.extracted /\ ~last.ret

\* C3 as claimed: every poll after the first refresh calls update() of the source.
C3_AsClaimed == last.op = "poll" => last.called

----------------------------------------------------------------------------
(* Properties of the targets of a poll *)

\* The loop over the targets ran in the last poll and came to target k
Reached(k) ==
    /\ last.op = "poll" /\ last.u_exc = "" /\ (~last.called \/ last.ret)
    /\ k \in 1..Len(subs) /\ k <= Len(last.evaluated) + 1

\* Target k was stored into data in the last poll
Stored(k) == Reached(k) /\ k <= Len(last.evaluated)

PagesInRange(k) == get_pages(pdf.pages, subs[k].pdf_pages).exc = ""

Joined(k) == get_pages(pdf.pages, subs[k].pdf_pages).txt

Matches(k) == SelectSeq(Joined(k), LAMBDA ch : ch = subs[k].regex_search)

\* What the target hands to the template
Selected(k) ==
    IF subs[k].regex_search = "" THEN Value("str", Joined(k), "", "")
    ELSE IF subs[k].regex_match_index = -1 THEN Value("list", Matches(k), "", "")
    ELSE Value("str", <<Matches(k)[subs[k].regex_match_index + 1]>>, "", "")

SelectedExists(k) ==
    /\ PagesInRange(k)
    /\ subs[k].regex_search # "" =>
          /\ Matches(k) # <<>>
          /\ subs[k].regex_match_index + 1 \in 0..Len(Matches(k))

\* C4: a stored target value is the joined page text, replaced by the matches of
\* the regex if there is one (the list for index -1, else the match at the index),
\* rendered by the template if there is one and stored unchanged otherwise.
C4_Pipeline ==
    \A k \in 1..Len(subs) :
        Stored(k) =>
            data[k] = IF subs[k].value_template = "" THEN Selected(k)
                      ELSE Value("rendered", Selected(k).v, subs[k].value_template,
                                 Selected(k).kind)

C4_Witness ==
    /\ Len(subs) = 2 /\ Stored(1) /\ Stored(2) /\ last.called
    /\ subs[1].regex_search # "" /\ subs[1].regex_match_index # -1
    /\ subs[1].value_template = ""
    /\ subs[2].regex_match_index = -1 /\ subs[2].value_template # ""

\* C6 as claimed: a target whose page range is outside the document makes the
\* poll create an index_error issue with the subentry id and raise ConfigEntryError.
C6_AsClaimed ==
    \A k \in 1..Len(subs) :
        (Reached(k) /\ ~Stored(k) /\ ~PagesInRange(k)) =>
            /\ last.exc = "ConfigEntryError"
            /\ last.issue = <<Issue("index_error", k)>>

\* C7: HTTPError or PDFParseError in update() during a poll creates the
\* pdf_error issue without subentry id, raises ConfigEntryError and leaves
\* coordinator.data as it was.
C7_PdfError ==
    (last.op = "poll" /\ last.u_exc \in {"HTTPError", "PDFParseError"}) =>
        /\ last.exc = "ConfigEntryError"
        /\ last.issue = <<Issue("pdf_error", 0)>>
        /\ Issue("pdf_error", 0) \in issues
        /\ data = last.data_before

C7_Witness ==
    /\ last.op = "poll" /\ last.u_exc = "PDFParseError" /\ ~DataEmpty(data)

\* C8: a target whose regex finds nothing in the page text makes the poll create
\* a no_matches issue with the subentry id and raise ConfigEntryError, and
\* data[target] keeps its value.
C8_NoMatches ==
    \A k \in 1..Len(subs) :
        (/\ Reached(k) /\ PagesInRange(k)
         /\ subs[k].regex_search # "" /\ Matches(k) = <<>>) =>
            /\ ~Stored(k)
            /\ last.exc = "ConfigEntryError"
            /\ last.issue = <<Issue("no_matches", k)>>
            /\ Issue("no_matches", k) \in issues
            /\ data[k] = last.data_before[k]

C8_Witness ==
    \E k \in 1..Len(subs) :
        /\ Reached(k) /\ PagesInRange(k) /\ last.called
        /\ subs[k].regex_search # "" /\ Matches(k) = <<>>
        /\ data[k] # NoValue

\* C9: a target whose template raises TemplateError makes the poll create a
\* template_error issue with the subentry id and raise ConfigEntryError, and
\* data[target] keeps its value.
C9_TemplateError ==
    \A k \in 1..Len(subs) :
        (/\ Reached(k) /\ SelectedExists(k) /\ subs[k].value_template # ""
         /\ TemplateError(subs[k].value_template, Selected(k))) =>
            /\ ~Stored(k)
            /\ last.exc = "ConfigEntryError"
            /\ last.issue = <<Issue("template_error", k)>>
            /\ Issue("template_error", k) \in issues
            /\ data[k] = last.data_before[k]

C9_Witness ==
    \E k \in 1..Len(subs) :
        /\ Reached(k) /\ SelectedExists(k) /\ last.called
        /\ subs[k].value_template # ""
        /\ TemplateError(subs[k].value_template, Selected(k))
        /\ data[k] # NoValue

----------------------------------------------------------------------------
(* Properties of get_pages *)

\* C5 as claimed: get_pages raises ValueError whenever a number written in the
\* range string is smaller than 1 or larger than the number of pages.
C5_AsClaimed ==
    (/\ gp.called
     /\ \E n \in WrittenNums(gp.range) : n < 1 \/ n > Len(gp.pages))
        => gp.exc = "ValueError"

\* The pages a range string names: n for "n", the pages from a to b for "a-b"
NamedPages(page_range) ==
    {n \in 0..(MaxPageNo + 1) :
        \E i \in 1..Len(page_range) :
            IF Len(page_range[i]) = 2
            THEN page_range[i][1] <= n /\ n <= page_range[i][2]
            ELSE n = page_range[i][1]}

\* C18 as claimed: for a range string whose numbers are all in range,
\* get_pages returns the texts of the pages it names, each once, in ascending
\* page order, joined by a newline, whatever the order and the repetitions in
\* which the pages are written.
C18_AsClaimed ==
    (/\ gp.called
     /\ \A n \in WrittenNums(gp.range) : n >= 1 /\ n <= Len(gp.pages))
        => /\ gp.exc = ""
           /\ gp.txt = JoinNewline([i \in 1..Cardinality(NamedPages(gp.range)) |->
                                      gp.pages[Sorted(NamedPages(gp.range))[i]]])

----------------------------------------------------------------------------
(* TargetSubentryFlowHandler (config_flow.py).  data is an attribute of the  *)
(* class: self.data[...] = ... writes the one dict all instances read.       *)

FlowIds == 1..NumFlows

\* TargetSubentryFlowHandler.data = {}: <<>> and "" stand for a missing key
NoFlowData == [pdf_pages |-> <<>>, regex_search |-> ""]

\* An instance: the step whose form it shows, the document of its entry, what
\* its user entered, whether the matches form offered the index, what it saved
NoFlow ==
    [step |-> "idle", doc |-> 1, pages |-> <<>>, regex |-> "", offered |-> FALSE,
     saved |-> <<>>, exc |-> ""]

FlowPageRanges == { << <<1>> >>, << <<2>> >>, << <<1, 2>> >> }
FlowPatterns == {"", "a", "c", "("}

\* What a step does to the class attribute and to its instance
FlowStep(d, step, offered, saved, exc) ==
    [data |-> d, step |-> step, offered |-> offered, saved |-> saved, exc |-> exc]

\* async_step_matches(None): the form of the last step
show_matches(d, pages) ==
    LET g == get_pages(pages, d.pdf_pages)
        matches == IF d.regex_search # "" THEN findall(d.regex_search, g.txt) ELSE <<>>
    IN  IF g.exc # "" THEN FlowStep(d, "raised", FALSE, <<>>, g.exc)
        ELSE FlowStep(d, "matches", matches # <<>>, <<>>, "")

\* async_step_regex(None): the form of the regex step
show_regex(d, pages) ==
    LET g == get_pages(pages, d.pdf_pages)
    IN  IF g.exc # "" THEN FlowStep(d, "raised", FALSE, <<>>, g.exc)
        ELSE FlowStep(d, "regex", FALSE, <<>>, "")

\* async_step_user(user_input) with user_input[CONF_PDF_PAGES] = page_range
async_step_user(d, pages, page_range) ==
    IF get_pages(pages, page_range).exc = "ValueError"
    THEN FlowStep(d, "user", FALSE, <<>>, "")            \* pages_out_of_range
    ELSE show_regex([d EXCEPT !.pdf_pages = page_range], pages)

\* async_step_regex(user_input): a pattern ("" for none) and the page text
async_step_regex(d, pages, pattern) ==
    LET g == get_pages(pages, d.pdf_pages)
        found == pattern # "" /\ ~PatternError(pattern) /\ findall(pattern, g.txt) # <<>>
    IN  IF g.exc # "" THEN FlowStep(d, "raised", FALSE, <<>>, g.exc)
        ELSE IF found THEN show_matches([d EXCEPT !.regex_search = pattern], pages)
        ELSE IF g.txt # <<>> THEN show_matches(d, pages)   \* user_input["page_text"]
        ELSE FlowStep(d, "regex", FALSE, <<>>, "")

\* _validate_step_matches: the errors of the last form
validate_step_matches(user_input, value) ==
    (IF user_input.name THEN {} ELSE {"name"})
    \cup (IF user_input.value_template # ""
          THEN IF TemplateError(user_input.value_template, value)
               THEN {"value_template"} ELSE {}
          ELSE IF value.kind = "list" THEN {"value_template"} ELSE {})

\* async_step_matches(user_input): [name, index (-2: not in the form), value_template]
async_step_matches(d, pages, offered, user_input) ==
    LET g == get_pages(pages, d.pdf_pages)
        matches == IF d.regex_search # "" THEN findall(d.regex_search, g.txt) ELSE <<>>
        index == user_input.regex_match_index
        value == IF matches # <<>> /\ index # -1 THEN StrValue(<<matches[index + 1]>>)
                 ELSE IF matches # <<>> THEN ListValue(matches)
                 ELSE StrValue(g.txt)
        saved == [pdf_pages |-> d.pdf_pages, regex_search |-> d.regex_search,
                  regex_match_index |-> index,
                  value_template |-> user_input.value_template]
    IN  IF g.exc # "" THEN FlowStep(d, "raised", offered, <<>>, g.exc)
        ELSE IF matches # <<>> /\ index = -2
        THEN FlowStep(d, "raised", offered, <<>>, "KeyError")
        ELSE IF matches # <<>> /\ index # -1 /\ index + 1 \notin 1..Len(matches)
        THEN FlowStep(d, "raised", offered, <<>>, "IndexError")
        ELSE IF validate_step_matches(user_input, value) # {}
        THEN FlowStep(d, "matches", matches # <<>>, <<>>, "")
        ELSE FlowStep(d, "done", offered, <<saved>>, "")

InitFlow ==
    /\ InitIdle
    /\ gp = GpIdle
    /\ flowData = NoFlowData
    /\ flows = [f \in FlowIds |-> NoFlow]
    /\ mig = MigIdle

FlowApply(f, r) ==
    /\ flowData' = r.data
    /\ flows' = [flows EXCEPT ![f].step = r.step, ![f].offered = r.offered,
                              ![f].saved = r.saved, ![f].exc = r.exc]
    /\ UNCHANGED <<pollVars, gp>>

\* The flow manager creates the handler and shows the first form
StartFlow(f) ==
    /\ flows[f].step = "idle"
    /\ \E d \in {1, 2} : flows' = [flows EXCEPT ![f].step = "user", ![f].doc = d]
    /\ UNCHANGED <<pollVars, gp, flowData>>

SubmitUser(f) ==
    /\ flows[f].step = "user"
    /\ \E page_range \in FlowPageRanges :
          LET r == async_step_user(flowData, DocPages(flows[f].doc), page_range)
          IN  /\ flowData' = r.data
              /\ flows' = [flows EXCEPT ![f].step = r.step, ![f].exc = r.exc,
                              ![f].pages = IF r.step = "user" THEN @ ELSE page_range]
              /\ UNCHANGED <<pollVars, gp>>

SubmitRegex(f) ==
    /\ flows[f].step = "regex"
    /\ \E pattern \in FlowPatterns :
          LET r == async_step_regex(flowData, DocPages(flows[f].doc), pattern)
          IN  /\ flowData' = r.data
              /\ flows' = [flows EXCEPT ![f].step = r.step, ![f].exc = r.exc,
                              ![f].offered = r.offered,
                              ![f].regex = IF r.data.regex_search = pattern /\ pattern # ""
                                           THEN pattern ELSE @]
              /\ UNCHANGED <<pollVars, gp>>

SubmitMatches(f) ==
    /\ flows[f].step = "matches"
    /\ \E name \in BOOLEAN, tpl \in {"", "T"},
          index \in IF flows[f].offered THEN {-1, 0} ELSE {-2} :
          FlowApply(f, async_step_matches(flowData, DocPages(flows[f].doc),
                        flows[f].offered,
                        [name |-> name, regex_match_index |-> index,
                         value_template |-> tpl]))

NextFlow ==
    \E f \in FlowIds : StartFlow(f) \/ SubmitUser(f) \/ SubmitRegex(f) \/ SubmitMatches(f)

SpecFlow == InitFlow /\ [][NextFlow]_vars

\* C10 as claimed: what a flow saves holds the page range and the regex its own
\* user entered, and nothing entered in another flow.
C10_AsClaimed ==
    \A f \in FlowIds :
        flows[f].saved # <<>> =>
            /\ flows[f].saved[1].pdf_pages = flows[f].pages
            /\ flows[f].saved[1].regex_search = flows[f].regex

----------------------------------------------------------------------------
(* Calls of async_migrate_entry on their own *)

MigVersions == {<<1, 1>>, <<1, 2>>, <<2, 1>>}

\* Entry data: any set of keys with the url among them, every key with value n
MigData == {[k \in ks \cup {"url"} |-> KeyValue(k, n)] :
               ks \in SUBSET EntryKeys, n \in 1..NumValues}

MigSubentries ==
    {<<>>} \cup {<<OldSubentry(n)>> : n \in 1..NumValues}
           \cup {<<NewSubentry(n)>> : n \in 1..NumValues}

\* The store keyed by the entry id before the migration: absent, or a record
MigStores == {<<>>, <<[k \in {"md5_checksum"} |-> KeyValue("md5_checksum", 0)]>>}

InitMigrate ==
    /\ InitIdle
    /\ gp = GpIdle
    /\ flowData = <<>>
    /\ flows = <<>>
    /\ mig \in {MigEntry(v[1], v[2], d, ss, st) :
                    v \in MigVersions, d \in MigData, ss \in MigSubentries,
                    st \in MigStores}

\* Home Assistant calls async_migrate_entry on the entry
MigrateEntry ==
    /\ ~mig.called
    /\ mig' = [async_migrate_entry(mig) EXCEPT !.called = TRUE, !.before = <<mig>>]
    /\ UNCHANGED <<ctype, subs, now, store, pdf, data, issues, phase, file, cf, entry,
                   tempStore, last, reload, gp, flowVars>>

NextMigrate == MigrateEntry

SpecMigrate == InitMigrate /\ [][NextMigrate]_vars

\* The entry was at version 1.1 when async_migrate_entry was called
MigratedFrom_1_1 ==
    /\ mig.called
    /\ mig.before[1].version = 1 /\ mig.before[1].minor_version = 1

\* C14: async_migrate_entry on an entry at version 1.1 leaves in the store
\* exactly the keys modified, modified_source and md5_checksum the entry data
\* had, with their values, removes them from the entry data, keeps every other
\* key of the entry data with its value, sets type to "http" and the version to
\* 1.2; on an entry at another version the entry and the store stay as they were.
C14_Migrate ==
    mig.called =>
        IF MigratedFrom_1_1
        THEN /\ Len(mig.store) = 1
             /\ DOMAIN mig.store[1] = DOMAIN mig.before[1].data \cap MovedKeys
             /\ \A k \in DOMAIN mig.store[1] : mig.store[1][k] = mig.before[1].data[k]
             /\ DOMAIN mig.data = (DOMAIN mig.before[1].data \ MovedKeys) \cup {"type"}
             /\ \A k \in DOMAIN mig.data \ {"type"} : mig.data[k] = mig.before[1].data[k]
             /\ mig.data["type"] = "http"
             /\ mig.version = 1 /\ mig.minor_version = 2
        ELSE /\ mig.data = mig.before[1].data
             /\ mig.store = mig.before[1].store
             /\ mig.subentries = mig.before[1].subentries
             /\ mig.version = mig.before[1].version
             /\ mig.minor_version = mig.before[1].minor_version

\* a version 1.1 entry holding moved keys, another type and other keys, over an
\* existing store, was migrated
C14_Witness ==
    /\ MigratedFrom_1_1
    /\ MovedKeys \subseteq DOMAIN mig.before[1].data
    /\ "type" \in DOMAIN mig.before[1].data
    /\ "scan_interval" \in DOMAIN mig.data
    /\ mig.before[1].store # <<>>

----------------------------------------------------------------------------
(* Properties of the upload_pdf service, the reload, the rename of the      *)
(* temporary store and the removal of the entry                            *)

\* upload_pdf was called for an existing entry with a file that pypdf cannot parse
UnparsableUpload ==
    /\ last.op = "upload_pdf" /\ last.called
    /\ last.u_exc = "PDFParseError"

\* C11: when upload_pdf is called for an existing entry with a file that cannot
\* be parsed, the call ends with ServiceValidationError, schedules no reload
\* and leaves the store of the entry as it was.
C11_AsClaimed ==
    UnparsableUpload =>
        /\ last.exc = "ServiceValidationError"
        /\ ~last.scheduled
        /\ last.store_after = last.store_before

\* The scheduled reload of an upload entry ran, asked for by upload_pdf
ReloadedAfterUpload ==
    /\ last.op = "reload" /\ ctype = "upload"
    /\ last.reload_of # <<>>

SetupWithTempId ==
    /\ last.op \in {"setup", "reload"} /\ ctype = "upload"
    /\ last.entry_before.temp_storage_id

\* C13: setting up an upload entry whose data has temp_storage_id leaves in the
\* store of the entry exactly the record of the temporary store, removes the
\* temporary store and temp_storage_id; if the temporary store is empty the
\* setup ends with ConfigEntryError and nothing is written; a setup of an
\* entry without temp_storage_id renames nothing.
C13_RenameOnce ==
    /\ (SetupWithTempId /\ last.temp_before # <<>>) =>
           /\ store = last.temp_before
           /\ tempStore = <<>>
           /\ ~entry.temp_storage_id
    /\ (SetupWithTempId /\ last.temp_before = <<>>) =>
           /\ last.exc = "ConfigEntryError"
           /\ store = last.store_before /\ tempStore = <<>>
           /\ entry = last.entry_before
           /\ phase = "new"
    /\ (last.op \in {"setup", "reload"} /\ ~last.entry_before.temp_storage_id) =>
           /\ tempStore = last.temp_before
           /\ ~entry.temp_storage_id

\* the first setup of an upload entry moved the record of the temporary store
C13_Witness ==
    /\ SetupWithTempId /\ last.op = "setup"
    /\ last.temp_before # <<>>
    /\ store = last.temp_before /\ tempStore = <<>>

\* the temporary store was empty at the setup
C13_EmptyTempStore == SetupWithTempId /\ last.temp_before = <<>>

\* C15: after async_remove_entry no store keyed by the id of the entry exists
C15_StoreRemoved == phase = "removed" => store = <<>>

\* an entry that had a stored record was removed
C15_Witness ==
    /\ phase = "removed" /\ last.op = "remove"
    /\ last.store_before # <<>>

----------------------------------------------------------------------------
(* Properties of the HTTP step of the config flow *)

\* async_step_http ran with a submitted scan interval below 30 seconds
ShortIntervalSubmitted ==
    /\ last.op \in {"step_http", "reconfigure"}
    /\ last.interval \in 0..29

\* C16: the HTTP step creates or reconfigures an entry only when the submitted
\* scan interval is at least 30 seconds; for a smaller one it fetches nothing,
\* creates or changes no entry and shows the form again with the error
\* min_interval; so the scan interval of every HTTP entry is at least 30 seconds.
C16_MinInterval ==
    /\ ShortIntervalSubmitted =>
           /\ cf = FlowResult("form", {<<"base", "min_interval">>}, "")
           /\ ~last.processed /\ last.u_exc = ""
           /\ entry = last.entry_before
           /\ last.op = "step_http" => phase = "flow"
    /\ (last.op \in {"step_http", "reconfigure"} /\ cf.type \in {"create_entry", "abort"}) =>
           /\ last.interval = -1 \/ last.interval >= 30
           /\ entry.scan_interval = IF last.interval = -1 THEN 300 ELSE last.interval
    /\ (ctype = "http" /\ phase # "flow") => entry.scan_interval >= 30

\* the reconfigure flow of an entry submitted 29 seconds
C16_Witness ==
    /\ last.op = "reconfigure" /\ last.interval = 29
    /\ <<"base", "min_interval">> \in cf.errors
    /\ entry.scan_interval >= 30

----------------------------------------------------------------------------
(* Which targets a poll evaluates *)

\* A poll with non-empty coordinator.data in which update() raised nothing
PolledUpdate == last.op = "poll" /\ last.called /\ last.u_exc = ""

\* The targets the loop reached: those it wrote and the one that raised
Attempted == Len(last.evaluated) + (IF last.subentry_id # 0 THEN 1 ELSE 0)

\* The targets of the poll before the one that raised, all of them if none did
WrittenTargets ==
    IF last.subentry_id # 0 THEN 1..(last.subentry_id - 1) ELSE 1..Len(subs)

\* C17: in a poll with non-empty data where update() returns False, data is
\* returned with every value unchanged and no target is evaluated; in a poll
\* where update() returns True, every configured target is evaluated in
\* subentry order.
C17_AsClaimed ==
    PolledUpdate =>
        IF last.ret
        THEN Attempted = Len(subs)
        ELSE data = last.data_before /\ Attempted = 0

\* C17 with the loop stopping at the first target that raises: the targets
\* before it, in subentry order, have their new values, the others keep theirs.
C17_UntilRaise ==
    PolledUpdate =>
        IF last.ret
        THEN /\ last.evaluated = [k \in WrittenTargets |-> k]
             /\ last.subentry_id = 0 <=> last.exc = ""
             /\ \A k \in WrittenTargets :
                    data[k] = target_value(last.pages_after, subs[k]).value
             /\ \A k \in (1..Len(subs)) \ WrittenTargets : data[k] = last.data_before[k]
             /\ last.subentry_id # 0 =>
                    target_value(last.pages_after, subs[last.subentry_id]).exc # ""
        ELSE data = last.data_before /\ Attempted = 0 /\ last.exc = ""

\* the first of two targets raised in a poll that found a new document
C17_Witness ==
    /\ PolledUpdate /\ last.ret
    /\ Len(subs) = 2 /\ last.subentry_id = 1
    /\ data[2] = last.data_before[2]

\* a poll found the document unchanged
C17_Unchanged == PolledUpdate /\ ~last.ret /\ Len(subs) = 2

----------------------------------------------------------------------------
(* Calls of update() on their own: an HTTP source, and an upload source      *)
(* built without a file path                                                 *)

\* The records _process_pdf saves: of every document, read at time 1 or 2
UpdateStores ==
    {<<>>} \cup
    {process_pdf(NewPdf(TRUE, TRUE, <<>>), <<>>, d, "ok", <<t, "upload">>).store :
        d \in Docs, t \in 1..2}

\* The object as pdfscrape builds it, or as an earlier update() left it
UpdateObjects(st) ==
    {NewPdf(TRUE, FALSE, st)} \cup
    {load_from_storage(NewPdf(TRUE, FALSE, old), old).self :
        old \in UpdateStores \ {<<>>}}

\* Responses with a Last-Modified header
HeaderResponses ==
    {[r EXCEPT !.last_modified = lm] :
        r \in {x \in Responses : ~x.fail /\ ~x.late_modified}, lm \in 1..2}

UpdateSources(type) ==
    IF type = "http" THEN Responses \cup HeaderResponses ELSE Sources(type, file)

InitUpdate ==
    /\ ctype \in {"http", "upload"}
    /\ subs = <<>>
    /\ now = 3
    /\ store \in UpdateStores
    /\ tempStore = <<>>
    /\ pdf \in UpdateObjects(store)
    /\ data = EmptyData(subs)
    /\ issues = {}
    /\ phase = "ready"
    /\ file = [doc |-> 1, parse |-> "ok", mtime |-> 1]
    /\ cf = FlowResult("none", {}, "")
    /\ entry = NoEntry
    /\ last = LastIdle
    /\ gp = GpIdle
    /\ flowData = <<>>
    /\ flows = <<>>
    /\ reload = <<>>
    /\ mig = MigIdle

\* await self.pdf.update()
CallUpdate ==
    /\ last.op = "none"
    /\ \E src \in UpdateSources(ctype) :
          \E u \in {update(ctype, pdf, store, src, now)} :
              /\ pdf' = u.self
              /\ store' = u.store
              /\ last' = LastUpdate("update", pdf, store, src, u)
    /\ UNCHANGED <<ctype, subs, now, data, issues, phase, file, cf, entry, tempStore,
                   gp, flowData, flows, reload, mig>>

NextUpdate == CallUpdate

SpecUpdate == InitUpdate /\ [][NextUpdate]_vars

\* update() was called on an upload source built without a file path
PathlessUpdate ==
    /\ last.op = "update" /\ ctype = "upload"
    /\ ~last.pdf_before.has_path

\* C19: update() of an upload source built without a file path never reports a
\* change: it returns False after loading pages, modified, modified_source and
\* md5_checksum from the store, and raises StoredFileError when the store
\* holds no record.
C19_LoadOnly ==
    PathlessUpdate =>
        /\ ~last.ret /\ ~last.extracted /\ ~last.saved
        /\ store = last.store_before
        /\ IF last.store_before = <<>>
           THEN last.u_exc = "StoredFileError"
           ELSE /\ last.u_exc = ""
                /\ pdf.pages = store[1].pages
                /\ pdf.modified = FromIsoFormat(store[1].modified)
                /\ pdf.modified_source = store[1].modified_source
                /\ pdf.md5_checksum = store[1].md5_checksum

\* an object holding one document loaded another one from the store
C19_Witness ==
    /\ PathlessUpdate /\ last.store_before # <<>>
    /\ last.pdf_before.pages # <<>>
    /\ pdf.pages # last.pdf_before.pages
    /\ pdf.pages = store[1].pages

\* the store held no record
C19_NoRecord == PathlessUpdate /\ last.store_before = <<>>

\* update() of an HTTP source extracted a document whose metadata gives no
\* modification date
UndatedFetched ==
    /\ last.op = "update" /\ ctype = "http"
    /\ last.extracted /\ DocMetaKind(last.doc) # "Dated"
    /\ last.pdf_before.modified = 0

\* C20: for an HTTP source, when the metadata gives no modification date and
\* the response has a Last-Modified header, modified is taken from the header
\* and modified_source is "http_header"; only without the header is the
\* current time used, with modified_source "first_check".
C20_AsClaimed ==
    UndatedFetched =>
        IF last.last_modified # 0
        THEN pdf.modified = last.last_modified /\ pdf.modified_source = "http_header"
        ELSE pdf.modified = now /\ pdf.modified_source = "first_check"

====
